---- MODULE Spec2Model ----
(***************************************************************************)
(* Topic lifecycle and scene-object lifecycle of the engineering-graphics  *)
(* viewer: Application, SceneManager, UIManager, TopicManager and the four *)
(* topic modules.  Every event handler (application start, a loadTopic     *)
(* call, a slider input, a direct clearSimulation call, a render frame,    *)
(* the font load's completion) runs to completion and is one action.       *)
(* The variable trace holds the calls the last handler made, in order.     *)
(***************************************************************************)
EXTENDS Integers, Sequences, FiniteSets, TLC

VARIABLES app, sm, tm, ui, topics, hist, trace

vars == <<app, sm, tm, ui, topics, hist, trace>>

(***************************************************************************)
(* Bounds of the exploration.                                              *)
(***************************************************************************)
\* topic loads in a run that counts them (hist.counting)
MaxLoads == 3
\* sliders of each topic that receive input: the first NumSliders of the
\* topic's attachEventListeners list
NumSliders == 1
\* objects a caller other than a topic has in the active object set
MaxObjects == 2

(***************************************************************************)
(* Identifiers.                                                            *)
(***************************************************************************)
\* the keys of TopicManager.topics
Registered == {"welcome", "points", "lines", "planes"}

\* a property name every object literal inherits from Object.prototype
InheritedKeys == {"constructor"}

\* a string that is no property of the topics object at all
UnknownIds == {"bogus"}

\* the strings loadTopic is called with
TopicIds == Registered \cup UnknownIds \cup InheritedKeys

\* topics that own a parameter record and sliders
Stateful == {"points", "lines", "planes"}

\* this.topics[topicId]: the topic instance, an inherited member of
\* Object.prototype, or undefined
topicsLookup(topicId) ==
    IF topicId \in Registered THEN topicId
    ELSE IF topicId \in InheritedKeys THEN "Object"
    ELSE "undefined"

\* typeof topic.cleanup === 'function' / topic.load is callable: only the
\* four topic classes define them
hasCleanup(topic) == topic \in Registered
hasLoad(topic) == topic \in Registered

(***************************************************************************)
(* Topic parameters and the slider of each.                                *)
(***************************************************************************)
PointsParams == [x |-> 3, y |-> 4, z |-> 5]
LinesParams == [x1 |-> 2, y1 |-> 2, z1 |-> 1, length |-> 6, theta |-> 30, phi |-> 45]
PlanesParams == [size |-> 5, rotX |-> 30, rotY |-> 45, rotZ |-> 0]

NoParams == [none |-> 0]

TopicParams == [points |-> PointsParams, lines |-> LinesParams, planes |-> PlanesParams]

\* min and max of every range input built by createControls
SliderMin ==
    [points |-> [x |-> -8, y |-> -8, z |-> -8],
     lines |-> [x1 |-> -8, y1 |-> -8, z1 |-> -8, length |-> 1, theta |-> 0, phi |-> 0],
     planes |-> [size |-> 2, rotX |-> 0, rotY |-> 0, rotZ |-> 0]]

SliderMax ==
    [points |-> [x |-> 8, y |-> 8, z |-> 8],
     lines |-> [x1 |-> 8, y1 |-> 8, z1 |-> 8, length |-> 10, theta |-> 90, phi |-> 90],
     planes |-> [size |-> 10, rotX |-> 360, rotY |-> 360, rotZ |-> 360]]

\* the parameter names of attachEventListeners, in its order
SliderNames ==
    [points |-> <<"x", "y", "z">>,
     lines |-> <<"x1", "y1", "z1", "length", "theta", "phi">>,
     planes |-> <<"size", "rotX", "rotY", "rotZ">>]

\* the sliders that receive input
Sliders(t) ==
    {SliderNames[t][i] : i \in {k \in 1..Len(SliderNames[t]) : k <= NumSliders}}

\* the values an input event carries: the low end of the slider's range and
\* the value the slider is created with
SliderValues(t, p) == {SliderMin[t][p], TopicParams[t][p]}

\* slider positions for runs that move every slider of one topic
SampleValues ==
    [points |-> [x |-> {-8, 3}, y |-> {-8, 0, 4}, z |-> {-8, 0, 5}],
     lines |-> [x1 |-> {-8, 2}, y1 |-> {2, 8}, z1 |-> {-8, 1},
                length |-> {1, 6, 10}, theta |-> {0, 30, 90}, phi |-> {0, 45, 90}],
     planes |-> [size |-> {2, 5, 10}, rotX |-> {0, 30, 90},
                 rotY |-> {0, 45, 180}, rotZ |-> {0, 90, 360}]]

(***************************************************************************)
(* Numbers.  A coordinate or length is an integer count of thousandths; an *)
(* angle in radians is a count of ten-thousandths of a radian; a cosine or *)
(* sine is a count of ten-thousandths.  Math.cos and Math.sin are their    *)
(* tables at the angles the model's slider positions give.                 *)
(***************************************************************************)
\* a slider value (a whole number of units) as a coordinate
Fix(v) == v * 1000

\* (degrees * Math.PI) / 180
degToRad(degrees) == (degrees * 174533) \div 1000

\* the slider positions of an angle that the tables cover
Angles == {0, 30, 45, 90, 180, 360}

cosDegrees == [d \in Angles |->
    CASE d = 0 -> 10000 [] d = 30 -> 8660 [] d = 45 -> 7071
      [] d = 90 -> 0 [] d = 180 -> -10000 [] d = 360 -> 10000]

sinDegrees == [d \in Angles |->
    CASE d = 0 -> 0 [] d = 30 -> 5000 [] d = 45 -> 7071
      [] d = 90 -> 10000 [] d = 180 -> 0 [] d = 360 -> 0]

\* Math.cos(rad), Math.sin(rad)
cos(rad) == cosDegrees[CHOOSE d \in Angles : degToRad(d) = rad]
sin(rad) == sinDegrees[CHOOSE d \in Angles : degToRad(d) = rad]

\* a * b where b is a cosine or a sine
times(a, b) == (a * b) \div 10000

\* Math.sqrt of a whole number, rounded down, by bisection
RECURSIVE sqrtBetween(_, _, _)
sqrtBetween(n, lo, hi) ==
    IF hi - lo <= 1 THEN lo
    ELSE LET mid == (lo + hi) \div 2
         IN IF mid * mid <= n THEN sqrtBetween(n, mid, hi)
            ELSE sqrtBetween(n, lo, mid)

sqrt(n) == sqrtBetween(n, 0, 46340)

\* Vector3.distanceTo
distanceTo(a, b) ==
    sqrt((a[1] - b[1]) * (a[1] - b[1]) + (a[2] - b[2]) * (a[2] - b[2])
         + (a[3] - b[3]) * (a[3] - b[3]))

\* Number.prototype.toFixed(1) and toFixed(2): the number of tenths and of
\* hundredths nearest to a count of thousandths, the larger one on a tie
toFixed1(v) == (v + 50) \div 100
toFixed2(v) == (v + 5) \div 10

\* Vector3.applyEuler(euler) in the default order 'XYZ': the rotation about
\* z first, then about y, then about x
rotateZ(v, rad) ==
    << times(v[1], cos(rad)) - times(v[2], sin(rad)),
       times(v[1], sin(rad)) + times(v[2], cos(rad)),
       v[3] >>

rotateY(v, rad) ==
    << times(v[1], cos(rad)) + times(v[3], sin(rad)),
       v[2],
       times(v[3], cos(rad)) - times(v[1], sin(rad)) >>

rotateX(v, rad) ==
    << v[1],
       times(v[2], cos(rad)) - times(v[3], sin(rad)),
       times(v[2], sin(rad)) + times(v[3], cos(rad)) >>

applyEuler(v, euler) == rotateX(rotateY(rotateZ(v, euler[3]), euler[2]), euler[1])

Origin == <<0, 0, 0>>

(***************************************************************************)
(* Scene objects.  An object is a record of the topic (or "scene") that    *)
(* created it, its role in the drawing, its three.js type, the names of    *)
(* its geometry and material resources ("none" when it has none; "array"   *)
(* when material is an array, whose elements are then in materials), the   *)
(* parameter record it was built from, its position, its rotation and the  *)
(* points its geometry was set from.                                       *)
(***************************************************************************)
Obj(owner, role, type, geometry, material, params) ==
    [owner |-> owner, role |-> role, type |-> type,
     geometry |-> geometry, material |-> material, materials |-> <<>>,
     params |-> params,
     position |-> Origin, rotation |-> Origin, points |-> <<>>]

\* object.position.set / copy, object.rotation, setFromPoints
At(object, position) == [object EXCEPT !.position = position]
Rotated(object, euler) == [object EXCEPT !.rotation = euler]
Through(object, points) == [object EXCEPT !.points = points]

\* setupLighting, scene.add(simulationObjects), createBasePlanes, createAxisLines
PermanentObjects ==
    << Obj("scene", "ambientLight", "AmbientLight", "none", "none", NoParams),
       Obj("scene", "directionalLight", "DirectionalLight", "none", "none", NoParams),
       Obj("scene", "simulationObjects", "Group", "none", "none", NoParams),
       Obj("scene", "hp", "Mesh", "hpGeometry", "hp.material", NoParams),
       Obj("scene", "vp", "Mesh", "vpGeometry", "vp.material", NoParams),
       Obj("scene", "gridHelper", "GridHelper", "grid.geometry", "grid.material", NoParams),
       Obj("scene", "axisLines", "Group", "none", "none", NoParams) >>

\* the children of the axisLines group
AxisLineObjects ==
    << Obj("scene", "lineX", "Line", "geometryX", "axisMaterial", NoParams),
       Obj("scene", "lineY", "Line", "geometryY", "axisMaterial", NoParams),
       Obj("scene", "lineZ", "Line", "geometryZ", "axisMaterial", NoParams) >>

\* createAxisLabels: six text meshes sharing textMaterial
LabelObjects ==
    << Obj("scene", "label X", "Mesh", "text X", "textMaterial", NoParams),
       Obj("scene", "label -X", "Mesh", "text -X", "textMaterial", NoParams),
       Obj("scene", "label Y", "Mesh", "text Y", "textMaterial", NoParams),
       Obj("scene", "label -Y", "Mesh", "text -Y", "textMaterial", NoParams),
       Obj("scene", "label Z", "Mesh", "text Z", "textMaterial", NoParams),
       Obj("scene", "label -Z", "Mesh", "text -Z", "textMaterial", NoParams) >>

\* PointsProjection.updateVisualization and createProjectionLines, in the
\* order of the addToSimulation calls
PointsObjects(p) ==
    LET mainPos == <<Fix(p.x), Fix(p.y), Fix(p.z)>>
        frontPos == <<Fix(p.x), Fix(p.y), 0>>
        topPos == <<Fix(p.x), 0, Fix(p.z)>>
        midPoint == <<Fix(p.x), 0, 0>>
    IN << At(Obj("points", "mainPoint", "Mesh", "pointGeometry", "mainPoint.material", p),
             mainPos),
          At(Obj("points", "frontView", "Mesh", "frontView.geometry", "frontView.material", p),
             frontPos),
          At(Obj("points", "topView", "Mesh", "topView.geometry", "topView.material", p),
             topPos),
          Through(Obj("points", "line P-front", "Line", "geometry 1", "lineMaterial", p),
                  <<mainPos, frontPos>>),
          Through(Obj("points", "line P-top", "Line", "geometry 2", "lineMaterial", p),
                  <<mainPos, topPos>>),
          Through(Obj("points", "line front-mid-top", "Line", "geometry 3", "lineMaterial", p),
                  <<frontPos, midPoint, topPos>>) >>

\* LinesProjection.updateVisualization: start, and end = start + (dx, dy, dz)
lineStart(p) == <<Fix(p.x1), Fix(p.y1), Fix(p.z1)>>

\* mutant: dy from the cosine of theta, dx and dz from its sine
lineEndSwapped(p) ==
    LET thetaRad == degToRad(p.theta)
        phiRad == degToRad(p.phi)
        dx == times(times(Fix(p.length), sin(thetaRad)), cos(phiRad))
        dy == times(Fix(p.length), cos(thetaRad))
        dz == times(times(Fix(p.length), sin(thetaRad)), sin(phiRad))
    IN <<Fix(p.x1) + dx, Fix(p.y1) + dy, Fix(p.z1) + dz>>

lineEnd(p) ==
    LET thetaRad == degToRad(p.theta)
        phiRad == degToRad(p.phi)
        dx == times(times(Fix(p.length), cos(thetaRad)), cos(phiRad))
        dy == times(Fix(p.length), sin(thetaRad))
        dz == times(times(Fix(p.length), cos(thetaRad)), sin(phiRad))
    IN <<Fix(p.x1) + dx, Fix(p.y1) + dy, Fix(p.z1) + dz>>

\* mutant: the front view of the end point keeps its depth
frontOfKeepsDepth(v) == v

\* new THREE.Vector3(v.x, v.y, 0) and new THREE.Vector3(v.x, 0, v.z)
frontOf(v) == <<v[1], v[2], 0>>
topOf(v) == <<v[1], 0, v[3]>>

\* LinesProjection.updateVisualization: createLine three times,
\* createProjectionLines, addEndpointSpheres
LinesObjects(p) ==
    LET start == lineStart(p)
        end == lineEnd(p)
        frontStart == frontOf(start)
        frontEnd == frontOf(end)
        topStart == topOf(start)
        topEnd == topOf(end)
    IN << Through(Obj("lines", "main line", "Line", "main.geometry", "main.material", p),
                  <<start, end>>),
          Through(Obj("lines", "front view", "Line", "front.geometry", "front.material", p),
                  <<frontStart, frontEnd>>),
          Through(Obj("lines", "top view", "Line", "top.geometry", "top.material", p),
                  <<topStart, topEnd>>),
          Through(Obj("lines", "dashed start-frontStart", "Line", "geometry 1", "lineMaterial", p),
                  <<start, frontStart>>),
          Through(Obj("lines", "dashed start-topStart", "Line", "geometry 2", "lineMaterial", p),
                  <<start, topStart>>),
          Through(Obj("lines", "dashed end-frontEnd", "Line", "geometry 3", "lineMaterial", p),
                  <<end, frontEnd>>),
          Through(Obj("lines", "dashed end-topEnd", "Line", "geometry 4", "lineMaterial", p),
                  <<end, topEnd>>),
          At(Obj("lines", "startSphere", "Mesh", "sphereGeometry", "sphereMaterial", p),
             start),
          At(Obj("lines", "endSphere", "Mesh", "sphereGeometry", "sphereMaterial.clone", p),
             end) >>

\* plane.rotation: the three rotation sliders in radians
planeRotation(p) == <<degToRad(p.rotX), degToRad(p.rotY), degToRad(p.rotZ)>>

\* mutant: the markers are placed at the corners of the unrotated plane
cornersUnrotated(p) ==
    LET halfSize == Fix(p.size) \div 2
    IN << <<-halfSize, -halfSize, 0>>, <<halfSize, -halfSize, 0>>,
          <<halfSize, halfSize, 0>>, <<-halfSize, halfSize, 0>> >>

\* addCornerSpheres: the four corners, each after corner.applyEuler(plane.rotation)
corners(p) ==
    LET halfSize == Fix(p.size) \div 2
        flat == << <<-halfSize, -halfSize, 0>>, <<halfSize, -halfSize, 0>>,
                   <<halfSize, halfSize, 0>>, <<-halfSize, halfSize, 0>> >>
    IN [i \in 1..4 |-> applyEuler(flat[i], planeRotation(p))]

\* PlanesProjection.updateVisualization and addCornerSpheres
PlanesObjects(p) ==
    LET rotation == planeRotation(p)
        corner == corners(p)
    IN << Rotated(Obj("planes", "plane", "Mesh", "planeGeometry", "planeMaterial", p),
                  rotation),
          Rotated(Obj("planes", "edgeLines", "LineSegments", "edges", "edgeMaterial", p),
                  rotation),
          At(Obj("planes", "corner 1", "Mesh", "sphereGeometry", "sphereMaterial.clone 1", p),
             corner[1]),
          At(Obj("planes", "corner 2", "Mesh", "sphereGeometry", "sphereMaterial.clone 2", p),
             corner[2]),
          At(Obj("planes", "corner 3", "Mesh", "sphereGeometry", "sphereMaterial.clone 3", p),
             corner[3]),
          At(Obj("planes", "corner 4", "Mesh", "sphereGeometry", "sphereMaterial.clone 4", p),
             corner[4]) >>

\* objects that a caller of addToSimulation other than the topics builds: a
\* mesh with an array of two materials, a line with one material, a point
\* cloud with a geometry and no material, a group with neither
CallerObjects ==
    { [Obj("caller", "box", "Mesh", "boxGeometry", "array", NoParams)
         EXCEPT !.materials = <<"faceMaterial 1", "faceMaterial 2">>],
      Obj("caller", "segment", "Line", "segmentGeometry", "segmentMaterial", NoParams),
      Obj("caller", "cloud", "Points", "cloudGeometry", "none", NoParams),
      Obj("caller", "group", "Group", "none", "none", NoParams) }

\* widths and heights of the scene container
ContainerSizes == {<<800, 600>>, <<1200, 600>>}

\* the objects a topic's updateVisualization builds from its parameters
Drawing(t, p) ==
    CASE t = "points" -> PointsObjects(p)
      [] t = "lines" -> LinesObjects(p)
      [] t = "planes" -> PlanesObjects(p)

\* the geometries and materials a topic's updateVisualization constructs:
\* those of the objects it adds, and for the Plane topic the material
\* addCornerSpheres constructs only to clone it for each corner
CreatedResources(t, p) ==
    LET objects == Drawing(t, p)
        attached == UNION {({objects[i].geometry, objects[i].material}
                              \cup {objects[i].materials[k] :
                                       k \in 1..Len(objects[i].materials)})
                             \ {"none", "array"} : i \in 1..Len(objects)}
    IN attached \cup (IF t = "planes" THEN {"sphereMaterial"} ELSE {})

(***************************************************************************)
(* The world a handler runs in: one record of all the variables, threaded  *)
(* through the operators below.  trace starts empty in every handler.      *)
(***************************************************************************)
World ==
    [app |-> app, sm |-> sm, tm |-> tm, ui |-> ui, topics |-> topics,
     hist |-> hist, trace |-> <<>>]

Commit(w) ==
    /\ app' = w.app
    /\ sm' = w.sm
    /\ tm' = w.tm
    /\ ui' = w.ui
    /\ topics' = w.topics
    /\ hist' = w.hist
    /\ trace' = w.trace

\* one call in the trace: what was called, its argument, the function that
\* called it, the resources it released, the objects a frame showed, and
\* for clearSimulation the set it found and its dispose and remove calls
Entry(op, arg, by) ==
    [op |-> op, arg |-> arg, by |-> by, released |-> <<>>, seen |-> <<>>,
     before |-> <<>>, steps |-> <<>>, slider |-> "", value |-> 0]

Log(w, op, arg, by) == [w EXCEPT !.trace = Append(@, Entry(op, arg, by))]

\* the counters of a run that counts: hist.loads, the load() calls that
\* returned, and hist.events, the topicChanged events dispatched
Count(w, what) ==
    IF w.hist.counting THEN [w EXCEPT !.hist[what] = @ + 1] ELSE w

(***************************************************************************)
(* SceneManager                                                            *)
(***************************************************************************)
\* Object3D.remove(object): the first child equal to object is spliced out
remove(children, object) ==
    IF \E i \in 1..Len(children) : children[i] = object
    THEN LET i == CHOOSE k \in 1..Len(children) :
                      /\ children[k] = object
                      /\ \A j \in 1..(k - 1) : children[j] # object
         IN SubSeq(children, 1, i - 1) \o SubSeq(children, i + 1, Len(children))
    ELSE children

\* the dispose calls of one pass of the loop: the geometry if the object
\* has one, then the material, or every element of a material array
RECURSIVE disposeEach(_, _)
disposeEach(object, materials) ==
    IF materials = <<>> THEN <<>>
    ELSE << <<"dispose", object.role, Head(materials)>> >>
         \o disposeEach(object, Tail(materials))

\* mutant: of a material array only the first element is released
disposeObjectFirstOfArray(object) ==
    (IF object.geometry # "none"
     THEN << <<"dispose", object.role, object.geometry>> >> ELSE <<>>)
    \o (IF object.material = "none" THEN <<>>
        ELSE IF object.material = "array"
             THEN disposeEach(object, SubSeq(object.materials, 1, 1))
             ELSE << <<"dispose", object.role, object.material>> >>)

disposeObject(object) ==
    (IF object.geometry # "none"
     THEN << <<"dispose", object.role, object.geometry>> >> ELSE <<>>)
    \o (IF object.material = "none" THEN <<>>
        ELSE IF object.material = "array"
             THEN disposeEach(object, object.materials)
             ELSE << <<"dispose", object.role, object.material>> >>)

\* the while loop of clearSimulation over a children array: the dispose
\* calls of the first child, then its removal, until no child is left
RECURSIVE clearLoop(_, _)

\* mutant: each pass takes the last child
clearLoopFromEnd(children, steps) ==
    IF Len(children) > 0
    THEN LET object == children[Len(children)]
         IN clearLoop(SubSeq(children, 1, Len(children) - 1),
                      steps \o disposeObject(object)
                            \o << <<"remove", object.role, "">> >>)
    ELSE [children |-> children, steps |-> steps]

\* mutant: the loop condition is length > 1, so the last child is never
\* released or removed
clearLoopKeepsLast(children, steps) ==
    IF Len(children) > 1
    THEN LET object == children[1]
         IN clearLoop(remove(children, object),
                      steps \o disposeObject(object)
                            \o << <<"remove", object.role, "">> >>)
    ELSE [children |-> children, steps |-> steps]

clearLoop(children, steps) ==
    IF Len(children) > 0
    THEN LET object == children[1]
         IN clearLoop(remove(children, object),
                      steps \o disposeObject(object)
                            \o << <<"remove", object.role, "">> >>)
    ELSE [children |-> children, steps |-> steps]

\* the resources named by the dispose calls among steps, in order
releasedBy(steps) ==
    LET disposed == SelectSeq(steps, LAMBDA step : step[1] = "dispose")
    IN [i \in 1..Len(disposed) |-> disposed[i][3]]

\* mutant: the loop runs over the scene's own children as well
clearSimulationWholeScene(w, by) ==
    LET r == clearLoop(w.sm.simulationObjects, <<>>)
        s == clearLoop(w.sm.children, r.steps)
    IN [w EXCEPT !.sm.simulationObjects = r.children,
                 !.sm.children = s.children,
                 !.trace = Append(@, [Entry("clearSimulation", "", by)
                                        EXCEPT !.released = releasedBy(s.steps),
                                               !.before = w.sm.simulationObjects,
                                               !.steps = s.steps])]

clearSimulation(w, by) ==
    LET r == clearLoop(w.sm.simulationObjects, <<>>)
    IN [w EXCEPT !.sm.simulationObjects = r.children,
                 !.trace = Append(@, [Entry("clearSimulation", "", by)
                                        EXCEPT !.released = releasedBy(r.steps),
                                               !.before = w.sm.simulationObjects,
                                               !.steps = r.steps])]

addToSimulation(w, object) ==
    [w EXCEPT !.sm.simulationObjects = Append(@, object)]

\* renderer.render(scene, camera): the frame shows the scene's children, the
\* simulationObjects group among them
render(w, by) ==
    [w EXCEPT !.trace = Append(@, [Entry("render", "", by)
                                     EXCEPT !.seen = w.sm.simulationObjects])]

\* mutant: every frame requests two frames
animateRequestsTwice(w, by) ==
    IF ~w.sm.renderer \/ ~w.sm.scene \/ ~w.sm.camera
    THEN w
    ELSE LET w1 == Log([w EXCEPT !.sm.framePending = @ + 2,
                                 !.sm.animationFrameId = TRUE],
                       "requestAnimationFrame", "", by)
             w2 == IF w1.sm.controls THEN Log(w1, "controls.update", "", by) ELSE w1
         IN render(w2, by)

\* animate(): returns at once without renderer, scene or camera; otherwise
\* requests the next frame and keeps its id, updates the controls and
\* renders.  sm.framePending counts the frame callbacks that are requested
\* and have neither run nor been cancelled.
animate(w, by) ==
    IF ~w.sm.renderer \/ ~w.sm.scene \/ ~w.sm.camera
    THEN w
    ELSE LET w1 == Log([w EXCEPT !.sm.framePending = @ + 1,
                                 !.sm.animationFrameId = TRUE],
                       "requestAnimationFrame", "", by)
             w2 == IF w1.sm.controls THEN Log(w1, "controls.update", "", by) ELSE w1
         IN render(w2, by)

\* mutant: the labels are added to the active object set
createAxisLabelsInSimulation(w) ==
    IF ~w.sm.font THEN w
    ELSE IF ~w.sm.scene
    THEN Log(Log(w, "throw", "TypeError", "createAxisLabels"), "console.warn", "", "init")
    ELSE [w EXCEPT !.sm.simulationObjects = @ \o LabelObjects]

\* createAxisLabels(): six meshes added to the scene once the font is there;
\* without a scene the first this.scene.add throws, inside the promise chain
\* of init, whose catch logs a warning
createAxisLabels(w) ==
    IF ~w.sm.font THEN w
    ELSE IF ~w.sm.scene
    THEN Log(Log(w, "throw", "TypeError", "createAxisLabels"), "console.warn", "", "init")
    ELSE [w EXCEPT !.sm.children = @ \o LabelObjects]

\* container.clientWidth / container.clientHeight
aspectOf(container) == (container[1] * 10000) \div container[2]

\* init(): the setup steps up to the point where the renderer is created fail
\* together with it; then the permanent content, the first frame and the
\* font request
initScene(w, rendererOk) ==
    IF ~rendererOk
    THEN Log([w EXCEPT !.sm.scene = TRUE, !.sm.camera = TRUE,
                       !.sm.aspect = aspectOf(w.sm.container)],
             "throw", "Error", "init")
    ELSE animate([w EXCEPT !.sm.scene = TRUE, !.sm.camera = TRUE,
                            !.sm.aspect = aspectOf(w.sm.container),
                            !.sm.renderer = TRUE,
                            !.sm.size = w.sm.container,
                            !.sm.canvasAttached = TRUE,
                            !.sm.controls = TRUE,
                            !.sm.children = PermanentObjects,
                            !.sm.axisLines = AxisLineObjects,
                            !.sm.fontRequest = "pending"], "init")

\* onWindowResize(): this.camera.aspect = ... throws on a null camera
onWindowResize(w) ==
    LET w0 == Log(w, "onWindowResize", "", "handler")
    IN IF ~w0.sm.camera THEN Log(w0, "throw", "TypeError", "onWindowResize")
       ELSE IF ~w0.sm.renderer
       THEN Log([w0 EXCEPT !.sm.aspect = aspectOf(w0.sm.container)],
                "throw", "TypeError", "onWindowResize")
       ELSE [w0 EXCEPT !.sm.aspect = aspectOf(w0.sm.container),
                       !.sm.size = w0.sm.container]

\* one release made by SceneManager.cleanup, and its count
release(w, what) ==
    [Log(w, what, "", "SceneManager.cleanup") EXCEPT !.sm.disposed[what] = @ + 1]

\* mutant: the references are not cleared
sceneCleanupKeepsReferences(w) ==
    LET w0 == Log(w, "SceneManager.cleanup", "", "handler")
        w1 == IF w0.sm.animationFrameId
              THEN Log([w0 EXCEPT !.sm.framePending = IF @ > 0 THEN @ - 1 ELSE 0],
                       "cancelAnimationFrame", "", "SceneManager.cleanup")
              ELSE w0
        w2 == IF w1.sm.controls THEN release(w1, "controls") ELSE w1
        w3 == IF w2.sm.renderer THEN release(w2, "renderer") ELSE w2
    IN IF w3.sm.renderer /\ w3.sm.canvasAttached
       THEN [release(w3, "canvas") EXCEPT !.sm.canvasAttached = FALSE]
       ELSE w3

\* mutant: the pending frame is not cancelled and the references stay
sceneCleanupKeepsLoop(w) ==
    LET w0 == Log(w, "SceneManager.cleanup", "", "handler")
        w2 == IF w0.sm.controls THEN release(w0, "controls") ELSE w0
        w3 == IF w2.sm.renderer THEN release(w2, "renderer") ELSE w2
        w4 == IF w3.sm.renderer /\ w3.sm.canvasAttached
              THEN [release(w3, "canvas") EXCEPT !.sm.canvasAttached = FALSE]
              ELSE w3
    IN [w4 EXCEPT !.sm.controls = FALSE, !.sm.tornDown = TRUE]

\* SceneManager.cleanup(): cancels the requested frame, disposes the
\* controls and the renderer, detaches the canvas, clears the references.
\* animationFrameId is not cleared.
sceneCleanup(w) ==
    LET w0 == Log(w, "SceneManager.cleanup", "", "handler")
        w1 == IF w0.sm.animationFrameId
              THEN Log([w0 EXCEPT !.sm.framePending = IF @ > 0 THEN @ - 1 ELSE 0],
                       "cancelAnimationFrame", "", "SceneManager.cleanup")
              ELSE w0
        w2 == IF w1.sm.controls THEN release(w1, "controls") ELSE w1
        w3 == IF w2.sm.renderer THEN release(w2, "renderer") ELSE w2
        w4 == IF w3.sm.renderer /\ w3.sm.canvasAttached
              THEN [release(w3, "canvas") EXCEPT !.sm.canvasAttached = FALSE]
              ELSE w3
    IN [w4 EXCEPT !.sm.scene = FALSE, !.sm.camera = FALSE,
                  !.sm.renderer = FALSE, !.sm.controls = FALSE,
                  !.sm.tornDown = TRUE]

(***************************************************************************)
(* UIManager                                                               *)
(***************************************************************************)
\* mutant: the class is added to the matching button and removed from none
setActiveButtonAddsOnly(w, topicId) ==
    LET w1 == Log(w, "setActiveButton", topicId, "loadTopic")
    IN [w1 EXCEPT !.ui.activeButtons = @ \cup {b \in w.ui.buttons : b = topicId},
                  !.ui.sidebarHidden = IF w.ui.narrow THEN TRUE ELSE @]

\* setActiveButton(topicId): class 'active' on exactly the buttons whose
\* data-topic equals topicId; on a narrow viewport the sidebar is closed
setActiveButton(w, topicId) ==
    LET w1 == Log(w, "setActiveButton", topicId, "loadTopic")
    IN [w1 EXCEPT !.ui.activeButtons = {b \in w.ui.buttons : b = topicId},
                  !.ui.sidebarHidden = IF w.ui.narrow THEN TRUE ELSE @]

\* the click listener of the menu control: the drawer's class
\* '-translate-x-full' (the drawer is hidden) is toggled
onMenuToggleClick(w) ==
    [Log(w, "menuToggle.click", "", "handler") EXCEPT !.ui.sidebarHidden = ~@]

\* mutant: the document's listener does not spare clicks on the menu control
onDocumentClickCountsMenu(w, inSidebar, inMenu) ==
    LET w1 == Log(w, "document.click",
                  IF inMenu THEN "menu" ELSE IF inSidebar THEN "sidebar" ELSE "outside",
                  "handler")
    IN IF w1.ui.narrow /\ ~inSidebar /\ ~w1.ui.sidebarHidden
       THEN [w1 EXCEPT !.ui.sidebarHidden = TRUE]
       ELSE w1

\* the click listener of the document, reached by every click: below 768
\* pixels a click outside the drawer and outside the menu control hides a
\* drawer that is shown
onDocumentClick(w, inSidebar, inMenu) ==
    LET w1 == Log(w, "document.click",
                  IF inMenu THEN "menu" ELSE IF inSidebar THEN "sidebar" ELSE "outside",
                  "handler")
    IN IF w1.ui.narrow /\ ~inSidebar /\ ~inMenu /\ ~w1.ui.sidebarHidden
       THEN [w1 EXCEPT !.ui.sidebarHidden = TRUE]
       ELSE w1

\* the click listener of the topic-buttons container: below 768 pixels a
\* click on a topic button hides the drawer
onTopicButtonsClick(w, onButton) ==
    LET w1 == Log(w, "topicButtons.click", "", "handler")
    IN IF w1.ui.narrow /\ onButton
       THEN [w1 EXCEPT !.ui.sidebarHidden = TRUE]
       ELSE w1

\* an exception was thrown in the handler and not caught so far
Thrown(w) == \E i \in 1..Len(w.trace) : w.trace[i].op = "throw"

\* setControls(html): the control panel now holds the markup of topic t;
\* the sliders of the markup it replaces are gone with their listeners.
\* Without an element 'topic-controls' on the page this.topicControls is
\* null and the assignment throws.
setControls(w, t) ==
    IF ~w.ui.controlsElement THEN Log(w, "throw", "TypeError", "setControls")
    ELSE [w EXCEPT !.ui.topicControls = t]

\* hideLoader()
hideLoader(w) ==
    [Log(w, "hideLoader", "", "Application.init") EXCEPT !.ui.loader = "hidden"]

\* showError(message): the loader shows the message and a Retry button
showError(w, message) ==
    [Log(w, "showError", message, "Application.init") EXCEPT !.ui.loader = "error"]

\* updateInfoOverlay(html): the overlay now holds what html shows
updateInfoOverlay(w, html) == [w EXCEPT !.ui.infoOverlay = html]

(***************************************************************************)
(* Topic modules                                                           *)
(***************************************************************************)
\* mutant: a point on a reference plane is counted to the quadrant above or
\* in front of it
getQuadrantNotStrict(p) ==
    IF p.y >= 0 /\ p.z >= 0 THEN "1st Quadrant"
    ELSE IF p.y >= 0 /\ p.z < 0 THEN "2nd Quadrant"
    ELSE IF p.y < 0 /\ p.z < 0 THEN "3rd Quadrant"
    ELSE IF p.y < 0 /\ p.z >= 0 THEN "4th Quadrant"
    ELSE "On a plane/axis"

\* PointsProjection.getQuadrant
getQuadrant(p) ==
    IF p.y > 0 /\ p.z > 0 THEN "1st Quadrant"
    ELSE IF p.y > 0 /\ p.z < 0 THEN "2nd Quadrant"
    ELSE IF p.y < 0 /\ p.z < 0 THEN "3rd Quadrant"
    ELSE IF p.y < 0 /\ p.z > 0 THEN "4th Quadrant"
    ELSE "On a plane/axis"

\* updateInfo(): what the topic writes to the info overlay.  The Line topic
\* shows its end points with one decimal and the distance between them
\* with two
updateInfo(t, p) ==
    CASE t = "points" ->
           [topic |-> t, position |-> <<p.x, p.y, p.z>>, quadrant |-> getQuadrant(p),
            front |-> <<p.x, p.y>>, top |-> <<p.x, p.z>>]
      [] t = "lines" ->
           LET start == lineStart(p)
               end == lineEnd(p)
           IN [topic |-> t,
               start |-> <<toFixed1(start[1]), toFixed1(start[2]), toFixed1(start[3])>>,
               end |-> <<toFixed1(end[1]), toFixed1(end[2]), toFixed1(end[3])>>,
               length |-> toFixed2(distanceTo(start, end)),
               theta |-> p.theta, phi |-> p.phi]
      [] t = "planes" ->
           [topic |-> t, size |-> p.size,
            rotX |-> p.rotX, rotY |-> p.rotY, rotZ |-> p.rotZ]

RECURSIVE addAll(_, _)
addAll(w, objects) ==
    IF objects = <<>> THEN w
    ELSE addAll(addToSimulation(w, Head(objects)), Tail(objects))

\* mutant: the redraw does not clear first
updateVisualizationNoClear(w, t, by) ==
    LET w1 == Log(w, "updateVisualization", t, by)
        w2 == addAll(w1, Drawing(t, w1.topics[t]))
    IN updateInfoOverlay(w2, updateInfo(t, w2.topics[t]))

\* updateVisualization() of a stateful topic: clear, rebuild every object
\* from the current parameters, rewrite the info overlay
updateVisualization(w, t, by) ==
    LET w1 == clearSimulation(Log(w, "updateVisualization", t, by), "updateVisualization")
        w2 == addAll(w1, Drawing(t, w1.topics[t]))
    IN updateInfoOverlay(w2, updateInfo(t, w2.topics[t]))

\* mutant: loading a topic sets its parameters back to the initial ones
loadResetsParams(w, t) ==
    LET w1 == setControls(Log(w, "load", t, "loadTopic"), t)
    IN IF Thrown(w1) THEN w1
       ELSE Count(IF t \in Stateful
                  THEN updateVisualization([w1 EXCEPT !.topics[t] = TopicParams[t]],
                                           t, "load")
                  ELSE updateInfoOverlay(w1, [topic |-> t]),
                  "loads")

\* load(): WelcomeTopic sets static markup; the others build their sliders
\* (createControls, attachEventListeners) and draw
load(w, t) ==
    LET w1 == setControls(Log(w, "load", t, "loadTopic"), t)
    IN IF Thrown(w1) THEN w1
       ELSE Count(IF t \in Stateful
                  THEN updateVisualization(w1, t, "load")
                  ELSE updateInfoOverlay(w1, [topic |-> t]),
                  "loads")

\* cleanup(): a no-op for WelcomeTopic, clearSimulation for the others
cleanup(w, t) ==
    LET w1 == Log(w, "cleanup", t, "loadTopic")
    IN IF t \in Stateful THEN clearSimulation(w1, "cleanup") ELSE w1

(***************************************************************************)
(* TopicManager                                                            *)
(***************************************************************************)
\* init(): the four topic buttons are created
initTopics(w) ==
    [w EXCEPT !.ui.buttons = Registered, !.app.topicManager = TRUE]

\* document.dispatchEvent(new CustomEvent('topicChanged', ...)): the
\* listener of Application.setupEventListeners logs it
dispatchEvent(w, topicId) ==
    LET w1 == Count(Log(w, "dispatchEvent", topicId, "loadTopic"), "events")
    IN IF w1.app.listeners THEN Log(w1, "console.log", topicId, "listener") ELSE w1

\* mutant: the scene is cleared before the previous topic's cleanup runs
loadTopicClearsFirst(w, topicId) ==
    LET w0 == Log(w, "loadTopic", topicId, "handler")
        w1 == clearSimulation(w0, "loadTopic")
        w2 == IF w1.tm.currentTopic # "null" /\ hasCleanup(w1.tm.currentTopic)
              THEN cleanup(w1, w1.tm.currentTopic)
              ELSE w1
        w3 == setActiveButton(w2, topicId)
        found == topicsLookup(topicId)
    IN IF found # "undefined"
       THEN LET w4 == Log([w3 EXCEPT !.tm.currentTopic = found],
                          "currentTopic", found, "loadTopic")
            IN IF hasLoad(found)
               THEN LET w5 == load(w4, found)
                    IN IF Thrown(w5) THEN w5 ELSE dispatchEvent(w5, topicId)
               ELSE Log(w4, "throw", "TypeError", "loadTopic")
       ELSE Log(w3, "console.error", topicId, "loadTopic")

\* mutant: the notification is dispatched whether or not the topic was found
loadTopicAlwaysDispatches(w, topicId) ==
    LET w0 == Log(w, "loadTopic", topicId, "handler")
        w1 == IF w0.tm.currentTopic # "null" /\ hasCleanup(w0.tm.currentTopic)
              THEN cleanup(w0, w0.tm.currentTopic)
              ELSE w0
        w2 == clearSimulation(w1, "loadTopic")
        w3 == setActiveButton(w2, topicId)
        found == topicsLookup(topicId)
    IN IF found # "undefined"
       THEN LET w4 == Log([w3 EXCEPT !.tm.currentTopic = found],
                          "currentTopic", found, "loadTopic")
            IN IF hasLoad(found)
               THEN LET w5 == load(w4, found)
                    IN IF Thrown(w5) THEN w5 ELSE dispatchEvent(w5, topicId)
               ELSE Log(w4, "throw", "TypeError", "loadTopic")
       ELSE dispatchEvent(Log(w3, "console.error", topicId, "loadTopic"), topicId)

\* mutant: cleanup is called without the typeof check
loadTopicCleanupUnchecked(w, topicId) ==
    LET w0 == Log(w, "loadTopic", topicId, "handler")
        w1 == IF w0.tm.currentTopic = "null" THEN w0
              ELSE IF hasCleanup(w0.tm.currentTopic)
              THEN cleanup(w0, w0.tm.currentTopic)
              ELSE Log(w0, "throw", "TypeError", "loadTopic")
        w2 == clearSimulation(w1, "loadTopic")
        w3 == setActiveButton(w2, topicId)
        found == topicsLookup(topicId)
    IN IF Thrown(w1) THEN w1
       ELSE IF found # "undefined"
       THEN LET w4 == Log([w3 EXCEPT !.tm.currentTopic = found],
                          "currentTopic", found, "loadTopic")
            IN IF hasLoad(found)
               THEN LET w5 == load(w4, found)
                    IN IF Thrown(w5) THEN w5 ELSE dispatchEvent(w5, topicId)
               ELSE Log(w4, "throw", "TypeError", "loadTopic")
       ELSE Log(w3, "console.error", topicId, "loadTopic")

\* loadTopic(topicId): cleanup of the active topic when it has one,
\* clearSimulation, setActiveButton, then the lookup; a found topic becomes
\* the active one, is loaded and announced, a missing one is only logged
loadTopic(w, topicId) ==
    LET w0 == Log(w, "loadTopic", topicId, "handler")
        w1 == IF w0.tm.currentTopic # "null" /\ hasCleanup(w0.tm.currentTopic)
              THEN cleanup(w0, w0.tm.currentTopic)
              ELSE w0
        w2 == clearSimulation(w1, "loadTopic")
        w3 == setActiveButton(w2, topicId)
        found == topicsLookup(topicId)
    IN IF found # "undefined"
       THEN LET w4 == Log([w3 EXCEPT !.tm.currentTopic = found],
                          "currentTopic", found, "loadTopic")
            IN IF hasLoad(found)
               THEN LET w5 == load(w4, found)
                    IN IF Thrown(w5) THEN w5 ELSE dispatchEvent(w5, topicId)
               ELSE Log(w4, "throw", "TypeError", "loadTopic")
       ELSE Log(w3, "console.error", topicId, "loadTopic")

(***************************************************************************)
(* Application                                                             *)
(***************************************************************************)
\* Application.init(): UIManager, the WebGL check, SceneManager.init,
\* TopicManager.init, the listeners, hideLoader, loadTopic('welcome'); any
\* failure ends in showError
\* the catch block of Application.init(): console.error and showError
initFailed(w, message) ==
    showError(Log([w EXCEPT !.app.state = "failed"],
                  "console.error", "", "Application.init"),
              message)

\* setupEventListeners(): the resize and the topicChanged listener
setupEventListeners(w) ==
    [Log(w, "setupEventListeners", "", "Application.init") EXCEPT !.app.listeners = TRUE]

\* mutant: the loader is hidden before the scene is initialized
initApplicationHidesLoaderFirst(w, webgl, rendererOk) ==
    LET w0 == Log(w, "Application.init", "", "handler")
        w1 == Log(w0, "UIManager.init", "", "Application.init")
        w2 == hideLoader(Log(w1, "checkWebGLSupport", "", "Application.init"))
    IN IF ~webgl
       THEN initFailed(Log(w2, "throw", "WebGL not supported", "Application.init"),
                       "Your browser does not support 3D graphics")
       ELSE LET w3 == initScene(Log([w2 EXCEPT !.sm.constructed = TRUE],
                                    "SceneManager.init", "", "Application.init"),
                                rendererOk)
            IN IF ~rendererOk
               THEN initFailed(w3, "Failed to initialize 3D environment")
               ELSE LET w4 == initTopics(Log(w3, "TopicManager.init", "",
                                             "Application.init"))
                        w5 == setupEventListeners(w4)
                        w7 == loadTopic(w5, "welcome")
                    IN IF Thrown(w7)
                       THEN initFailed(w7, "Failed to initialize 3D environment")
                       ELSE [w7 EXCEPT !.app.state = "ready"]

\* mutant: the topic controller is set up before the scene is initialized
initApplicationTopicsFirst(w, webgl, rendererOk) ==
    LET w0 == Log(w, "Application.init", "", "handler")
        w1 == Log(w0, "UIManager.init", "", "Application.init")
        w2 == initTopics(Log(w1, "TopicManager.init", "", "Application.init"))
        w3 == Log(w2, "checkWebGLSupport", "", "Application.init")
    IN IF ~webgl
       THEN initFailed(Log(w3, "throw", "WebGL not supported", "Application.init"),
                       "Your browser does not support 3D graphics")
       ELSE LET w4 == initScene(Log([w3 EXCEPT !.sm.constructed = TRUE],
                                    "SceneManager.init", "", "Application.init"),
                                rendererOk)
            IN IF ~rendererOk
               THEN initFailed(w4, "Failed to initialize 3D environment")
               ELSE LET w5 == setupEventListeners(w4)
                        w6 == hideLoader(w5)
                        w7 == loadTopic(w6, "welcome")
                    IN IF Thrown(w7)
                       THEN initFailed(w7, "Failed to initialize 3D environment")
                       ELSE [w7 EXCEPT !.app.state = "ready"]

initApplication(w, webgl, rendererOk) ==
    LET w0 == Log(w, "Application.init", "", "handler")
        w1 == Log(w0, "UIManager.init", "", "Application.init")
        w2 == Log(w1, "checkWebGLSupport", "", "Application.init")
    IN IF ~webgl
       THEN initFailed(Log(w2, "throw", "WebGL not supported", "Application.init"),
                       "Your browser does not support 3D graphics")
       ELSE LET w3 == initScene(Log([w2 EXCEPT !.sm.constructed = TRUE],
                                    "SceneManager.init", "", "Application.init"),
                                rendererOk)
            IN IF ~rendererOk
               THEN initFailed(w3, "Failed to initialize 3D environment")
               ELSE LET w4 == initTopics(Log(w3, "TopicManager.init", "",
                                             "Application.init"))
                        w5 == setupEventListeners(w4)
                        w6 == hideLoader(w5)
                        w7 == loadTopic(w6, "welcome")
                    IN IF Thrown(w7)
                       THEN initFailed(w7, "Failed to initialize 3D environment")
                       ELSE [w7 EXCEPT !.app.state = "ready"]

(***************************************************************************)
(* Initial state: the page is loaded, nothing is initialized.              *)
(***************************************************************************)
\* UIManager's constructor looks the page's elements up; hasControls tells
\* whether the page has the element 'topic-controls'
InitPage(counting, hasControls) ==
    /\ app = [state |-> "constructed", topicManager |-> FALSE, listeners |-> FALSE]
    /\ sm = [constructed |-> FALSE, scene |-> FALSE, camera |-> FALSE,
             renderer |-> FALSE, controls |-> FALSE, children |-> <<>>,
             axisLines |-> <<>>, simulationObjects |-> <<>>,
             framePending |-> 0, font |-> FALSE, fontRequest |-> "none",
             animationFrameId |-> FALSE, canvasAttached |-> FALSE,
             container |-> <<800, 600>>, aspect |-> 0, size |-> <<0, 0>>,
             disposed |-> [controls |-> 0, renderer |-> 0, canvas |-> 0],
             tornDown |-> FALSE]
    /\ tm = [currentTopic |-> "null"]
    /\ \E narrow \in BOOLEAN, hidden \in BOOLEAN :
          ui = [loader |-> "visible", buttons |-> {}, activeButtons |-> {},
                topicControls |-> "empty", infoOverlay |-> [topic |-> "empty"],
                narrow |-> narrow, sidebarHidden |-> hidden,
                controlsElement |-> hasControls]
    /\ topics = TopicParams
    /\ hist = [counting |-> counting, loads |-> 0, events |-> 0]
    /\ trace = <<>>

\* the host page of the application: every element is there
InitWorld(counting) == InitPage(counting, TRUE)

Init == InitWorld(FALSE)

\* any host page: the element 'topic-controls' may be missing
InitAnyPage == \E hasControls \in BOOLEAN : InitPage(FALSE, hasControls)

\* a run that counts its topic loads and its topicChanged events
InitCounting == InitWorld(TRUE)

(***************************************************************************)
(* Actions: one per event handler.                                         *)
(***************************************************************************)
\* DOMContentLoaded: new Application().init()
AppInit ==
    /\ app.state = "constructed"
    /\ \E webgl \in BOOLEAN, rendererOk \in BOOLEAN :
          Commit(initApplication(World, webgl, rendererOk))

\* a call of TopicManager.loadTopic: a click on a topic button, or any
\* other caller with any string
LoadTopicWith(ids) ==
    /\ app.topicManager
    /\ hist.counting => hist.loads < MaxLoads
    /\ \E topicId \in ids : Commit(loadTopic(World, topicId))

LoadTopic == LoadTopicWith(TopicIds)

\* the same with registered identifiers only
LoadRegistered == LoadTopicWith(Registered)

\* the input listener of slider p of topic t: the parameter is set to the
\* slider's value and the topic redraws
sliderInput(w, t, p, v) ==
    LET w0 == [w EXCEPT !.trace = Append(@, [Entry("input", t, "handler")
                                               EXCEPT !.slider = p, !.value = v])]
        w1 == [w0 EXCEPT !.topics[t][p] = v]
    IN updateVisualization(w1, t, "input")

\* an input event on a slider that is in the control panel
SliderInput ==
    /\ ui.topicControls \in Stateful
    /\ \E p \in Sliders(ui.topicControls) :
          \E v \in SliderValues(ui.topicControls, p) :
             Commit(sliderInput(World, ui.topicControls, p, v))

\* an input event on any slider of the topic in the control panel, in runs
\* in which the sliders of one topic only are moved
SliderInputSampled ==
    /\ ui.topicControls \in Stateful
    /\ \A u \in Stateful \ {ui.topicControls} : topics[u] = TopicParams[u]
    /\ \E i \in 1..Len(SliderNames[ui.topicControls]) :
          LET p == SliderNames[ui.topicControls][i]
          IN \E v \in SampleValues[ui.topicControls][p] :
                Commit(sliderInput(World, ui.topicControls, p, v))

\* a direct call of SceneManager.addToSimulation with a new object
AddToSimulation ==
    /\ sm.constructed
    /\ Cardinality({i \in 1..Len(sm.simulationObjects) :
                       sm.simulationObjects[i].owner = "caller"}) < MaxObjects
    /\ \E object \in CallerObjects :
          Commit(addToSimulation(Log(World, "addToSimulation", object.role, "handler"),
                                 object))

\* a direct call of SceneManager.clearSimulation
ClearSimulation ==
    /\ sm.constructed
    /\ Commit(clearSimulation(World, "handler"))

\* a call of SceneManager.cleanup, the teardown
Teardown ==
    /\ sm.constructed
    /\ Commit(sceneCleanup(World))

\* the window's resize event, with the container at its new size
Resize ==
    /\ app.listeners
    /\ \E container \in ContainerSizes :
          Commit(onWindowResize([World EXCEPT !.sm.container = container]))

\* a click on the menu control: its own listener, then the document's
MenuClick ==
    /\ app.state # "constructed"
    /\ \E inSidebar \in BOOLEAN :
          Commit(onDocumentClick(onMenuToggleClick(World), inSidebar, TRUE))

\* a click in the drawer beside the topic buttons, or outside the drawer and
\* the menu control
PageClick ==
    /\ app.state # "constructed"
    /\ \E inSidebar \in BOOLEAN :
          Commit(onDocumentClick(World, inSidebar, FALSE))

\* a click on a topic button: the button's listener calls loadTopic, then
\* the listeners of the topic-buttons container and of the document run;
\* an exception in the first does not keep the others from running
TopicButtonClick ==
    /\ app.topicManager
    /\ \E topicId \in ui.buttons, inSidebar \in BOOLEAN :
          Commit(onDocumentClick(onTopicButtonsClick(loadTopic(World, topicId), TRUE),
                                 inSidebar, FALSE))

\* the requestAnimationFrame callback
Animate ==
    /\ sm.framePending > 0
    /\ Commit(animate([World EXCEPT !.sm.framePending = @ - 1], "frame"))

\* the font load's success callback, then createAxisLabels
FontLoaded ==
    /\ sm.fontRequest = "pending"
    /\ Commit(createAxisLabels(Log([World EXCEPT !.sm.font = TRUE,
                                                 !.sm.fontRequest = "done"],
                                   "fontLoaded", "", "handler")))

\* the font load's failure callback: console.warn only
FontFailed ==
    /\ sm.fontRequest = "pending"
    /\ Commit(Log([World EXCEPT !.sm.fontRequest = "failed"],
                  "console.warn", "", "handler"))

Next ==
    \/ AppInit
    \/ LoadTopic
    \/ SliderInput
    \/ ClearSimulation
    \/ Animate
    \/ FontLoaded
    \/ FontFailed

Spec == Init /\ [][Next]_vars

SpecCounting == InitCounting /\ [][Next]_vars

\* runs of loadTopic calls with registered identifiers, slider inputs,
\* frames and the font load only
NextRegistered ==
    \/ AppInit
    \/ LoadRegistered
    \/ SliderInput
    \/ Animate
    \/ FontLoaded
    \/ FontFailed

SpecRegistered == Init /\ [][NextRegistered]_vars

\* runs of clicks on the menu control, the topic buttons and the rest of
\* the page, with slider inputs, frames and the font load
NextMenu ==
    \/ AppInit
    \/ MenuClick
    \/ PageClick
    \/ TopicButtonClick
    \/ SliderInput
    \/ Animate
    \/ FontLoaded
    \/ FontFailed

SpecMenu == Init /\ [][NextMenu]_vars

\* the same runs on any host page
SpecAnyPage == InitAnyPage /\ [][NextRegistered]_vars

\* runs in which a caller other than the topics adds objects of its own
NextApi ==
    \/ AppInit
    \/ LoadRegistered
    \/ AddToSimulation
    \/ ClearSimulation
    \/ Animate
    \/ FontLoaded
    \/ FontFailed

SpecApi == Init /\ [][NextApi]_vars

\* runs on a wide viewport that also tear the scene down and resize the
\* window
InitWide == Init /\ ~ui.narrow /\ ~ui.sidebarHidden

NextLifecycle ==
    \/ AppInit
    \/ LoadRegistered
    \/ SliderInput
    \/ ClearSimulation
    \/ Animate
    \/ FontLoaded
    \/ FontFailed
    \/ Teardown
    \/ Resize

SpecLifecycle == InitWide /\ [][NextLifecycle]_vars

\* runs of the application's own handlers, without direct calls of the
\* scene's methods
NextTopics ==
    \/ AppInit
    \/ LoadTopic
    \/ SliderInput
    \/ Animate
    \/ FontLoaded
    \/ FontFailed

SpecTopics == Init /\ [][NextTopics]_vars

\* runs in which every slider of a topic is moved
NextDrawing ==
    \/ AppInit
    \/ LoadRegistered
    \/ SliderInputSampled

SpecDrawing == Init /\ [][NextDrawing]_vars

(***************************************************************************)
(* Reading the trace of the last handler.                                  *)
(***************************************************************************)
\* the positions of the trace that hold a call of op
Calls(tr, op) == {i \in 1..Len(tr) : tr[i].op = op}

\* the last handler was a loadTopic call (the one of application start
\* included), and the identifier it was called with
IsLoadTopic(tr) == Calls(tr, "loadTopic") # {}
Requested(tr) == tr[CHOOSE i \in Calls(tr, "loadTopic") : TRUE].arg

\* the statements of loadTopic's own body, in order, as <<call, argument>>
Steps(tr) ==
    LET own == SelectSeq(tr, LAMBDA e : e.by = "loadTopic")
    IN [i \in 1..Len(own) |-> <<own[i].op, own[i].arg>>]

\* every resource a handler released
Released(tr) == UNION {{tr[i].released[k] : k \in 1..Len(tr[i].released)} : i \in 1..Len(tr)}

Range(seq) == {seq[i] : i \in 1..Len(seq)}

\* the last loadTopic call had an identifier without a button: only
\* setActiveButton writes ui.activeButtons, and it leaves it empty exactly then
LastRequestUnregistered == app.topicManager /\ ui.activeButtons = {}

(***************************************************************************)
(* C1.  A loadTopic(id) call with a registered id, made while a topic is   *)
(* active, runs these statements in this order, none skipped: the previous *)
(* topic's cleanup, clearSimulation, setActiveButton(id), the assignment   *)
(* of the active topic, the new topic's load, the topicChanged dispatch.   *)
(***************************************************************************)
C1_LoadTopicOrder ==
    [][\A id \in Registered :
          (/\ tm.currentTopic \in Registered
           /\ trace'[1].op = "loadTopic"
           /\ trace'[1].arg = id)
          => /\ Steps(trace') = << <<"cleanup", tm.currentTopic>>,
                                   <<"clearSimulation", "">>,
                                   <<"setActiveButton", id>>,
                                   <<"currentTopic", id>>,
                                   <<"load", id>>,
                                   <<"dispatchEvent", id>> >>
             /\ tm'.currentTopic = id
             /\ ui'.activeButtons = {id}]_vars

\* a switch from the Point topic to the Line topic has run
C1_Witness ==
    /\ trace # <<>>
    /\ trace[1].op = "loadTopic"
    /\ trace[1].arg = "lines"
    /\ \E i \in Calls(trace, "cleanup") : trace[i].arg = "points"

(***************************************************************************)
(* C2.  After loadTopic calls with registered ids and slider inputs only,  *)
(* the active object set holds objects of the last loaded topic only, and  *)
(* exactly as many as that topic draws: welcome 0, points 6 (3 markers, 3  *)
(* lines), lines 9 (3 segments, 4 dashed lines, 2 markers), planes 6       *)
(* (mesh, outline, 4 corner markers).                                      *)
(***************************************************************************)
ExpectedTypes ==
    [welcome |-> [Mesh |-> 0, Line |-> 0, LineSegments |-> 0],
     points |-> [Mesh |-> 3, Line |-> 3, LineSegments |-> 0],
     lines |-> [Mesh |-> 2, Line |-> 7, LineSegments |-> 0],
     planes |-> [Mesh |-> 5, Line |-> 0, LineSegments |-> 1]]

ExpectedCount == [welcome |-> 0, points |-> 6, lines |-> 9, planes |-> 6]

CountType(objs, type) == Cardinality({i \in 1..Len(objs) : objs[i].type = type})

C2_SwitchIsExclusive ==
    app.state = "ready" =>
        LET B == tm.currentTopic
            objs == sm.simulationObjects
        IN /\ B \in Registered
           /\ \A i \in 1..Len(objs) : objs[i].owner = B
           /\ Len(objs) = ExpectedCount[B]
           /\ \A type \in {"Mesh", "Line", "LineSegments"} :
                 CountType(objs, type) = ExpectedTypes[B][type]

\* back on Welcome from the Plane topic, whose objects the call released
C2_Witness ==
    /\ trace # <<>>
    /\ trace[1].op = "loadTopic"
    /\ trace[1].arg = "welcome"
    /\ \E i \in Calls(trace, "cleanup") :
          trace[i].arg = "planes" /\ trace[i + 1].released # <<>>
    /\ sm.simulationObjects = <<>>

(***************************************************************************)
(* C3.  In every reachable state all objects of the active object set were *)
(* created by one topic, and that topic is the controller's active topic.  *)
(* Violated: after loadTopic('constructor') the active topic is a member   *)
(* of Object.prototype while the sliders of the topic before still draw.   *)
(***************************************************************************)
C3_ObjectsOfActiveTopic ==
    \A i \in 1..Len(sm.simulationObjects) :
        sm.simulationObjects[i].owner = tm.currentTopic

(***************************************************************************)
(* C4.  Every rendered frame sees the active object set either empty or    *)
(* as the complete drawing of one topic from its current parameters:       *)
(* never a mix of two topics, never a partly rebuilt drawing.              *)
(***************************************************************************)
C4_FramesSeeWholeDrawings ==
    \A i \in Calls(trace, "render") :
        \/ trace[i].seen = <<>>
        \/ \E t \in Stateful : trace[i].seen = Drawing(t, topics[t])

\* a frame after a slider input on the Line topic
C4_Witness ==
    /\ trace # <<>>
    /\ trace[1].by = "frame"
    /\ topics.lines # LinesParams
    /\ \E i \in Calls(trace, "render") :
          /\ trace[i].by = "frame"
          /\ trace[i].seen = Drawing("lines", topics.lines)

(***************************************************************************)
(* C5.  loadTopic(id) with any string that is no registered key returns    *)
(* without throwing and leaves the active object set empty, and a          *)
(* following loadTopic with a registered id loads that topic.  Violated:   *)
(* 'constructor' is found on the prototype of the topics object, and       *)
(* calling its load() throws a TypeError.                                  *)
(***************************************************************************)
C5_UnregisteredDoesNotThrow ==
    /\ [](IsLoadTopic(trace) /\ Requested(trace) \notin Registered
            => /\ Calls(trace, "throw") = {}
               /\ sm.simulationObjects = <<>>)
    /\ [][\A id \in Registered :
             (/\ LastRequestUnregistered
              /\ trace'[1].op = "loadTopic"
              /\ trace'[1].arg = id)
             => /\ tm'.currentTopic = id
                /\ Calls(trace', "throw") = {}
                /\ sm'.simulationObjects =
                      IF id \in Stateful THEN Drawing(id, topics[id]) ELSE <<>>]_vars

(***************************************************************************)
(* C6.  After loadTopic(id) with an unregistered id the controller has no  *)
(* active topic, whatever was active before, until loadTopic is called     *)
(* with a registered id.  Violated: the code leaves currentTopic as it     *)
(* was (or sets it to the inherited member it found).                      *)
(***************************************************************************)
C6_UnregisteredUnsetsTopic ==
    LastRequestUnregistered => tm.currentTopic = "null"

(***************************************************************************)
(* C7.  After loadTopic(id) with an unregistered id the active object set  *)
(* stays empty under every user event until loadTopic is called with a     *)
(* registered id.  Violated: the sliders of the topic before are still in  *)
(* the control panel, and an input on one of them redraws that topic.      *)
(***************************************************************************)
C7_UnregisteredStaysEmpty ==
    LastRequestUnregistered => sm.simulationObjects = <<>>

(***************************************************************************)
(* C8.  A loadTopic call with a registered id dispatches exactly one       *)
(* topicChanged event carrying that id, after load() has returned; a call  *)
(* with an unregistered id dispatches none; the events dispatched in a run *)
(* are as many as the loads that completed.                                *)
(***************************************************************************)
C8_OneEventPerLoad ==
    /\ hist.events = hist.loads
    /\ IsLoadTopic(trace) =>
          LET id == Requested(trace)
              sent == Calls(trace, "dispatchEvent")
          IN IF id \in Registered
             THEN /\ Cardinality(sent) = 1
                  /\ \A i \in sent :
                        /\ trace[i].arg = id
                        /\ \E j \in Calls(trace, "load") : j < i /\ trace[j].arg = id
                        /\ \A j \in 1..Len(trace) :
                              trace[j].by \in {"load", "updateVisualization"} => j < i
             ELSE sent = {}

\* two loads have completed and the last request was for an unknown id
C8_Witness ==
    /\ hist.loads >= 2
    /\ hist.events >= 2
    /\ IsLoadTopic(trace)
    /\ Requested(trace) = "bogus"

(***************************************************************************)
(* C9.  clearSimulation is idempotent: called twice in succession on any   *)
(* content of the active object set, it leaves the set empty after the     *)
(* first and after the second call, the second call releases nothing and   *)
(* changes nothing, and a call on an empty set changes nothing.            *)
(***************************************************************************)
\* a world without its trace
State(w) == [w EXCEPT !.trace = <<>>]

C9_ClearIsIdempotent ==
    LET w1 == clearSimulation(World, "handler")
        w2 == clearSimulation(w1, "handler")
    IN /\ w1.sm.simulationObjects = <<>>
       /\ w2.sm.simulationObjects = <<>>
       /\ w2.trace[2].released = <<>>
       /\ State(w2) = State(w1)
       /\ sm.simulationObjects = <<>> =>
             w1.trace[1].released = <<>> /\ State(w1) = World
       /\ \A i \in Calls(trace, "clearSimulation") :
             (i + 1) \in Calls(trace, "clearSimulation") =>
                trace[i + 1].released = <<>>

\* the two successive calls of a topic switch: the one of cleanup released
\* the drawing, the one of loadTopic found the set empty
C9_Witness ==
    /\ \E i \in Calls(trace, "clearSimulation") :
          /\ (i + 1) \in Calls(trace, "clearSimulation")
          /\ trace[i].released # <<>>
          /\ trace[i + 1].released = <<>>

(***************************************************************************)
(* C10.  clearSimulation, and so every loadTopic call and every slider     *)
(* redraw, leaves the permanent scene content as it is: the reference      *)
(* planes, the grid, the axis lines, the lights and the axis labels stay   *)
(* the same objects of the scene and none of their resources is released.  *)
(***************************************************************************)
PermanentResources ==
    LET permanent == Range(PermanentObjects) \cup Range(AxisLineObjects)
                        \cup Range(LabelObjects)
    IN ({o.geometry : o \in permanent} \cup {o.material : o \in permanent}) \ {"none"}

C10_PermanentContentKept ==
    [][trace'[1].op \in {"loadTopic", "input", "clearSimulation"}
         => /\ sm'.children = sm.children
            /\ sm'.axisLines = sm.axisLines
            /\ Released(trace') \cap PermanentResources = {}]_vars

\* a topic switch that released a drawing while the axis labels were there
C10_Witness ==
    /\ trace # <<>>
    /\ trace[1].op = "loadTopic"
    /\ Released(trace) # {}
    /\ sm.children = PermanentObjects \o LabelObjects
    /\ sm.axisLines = AxisLineObjects

(***************************************************************************)
(* C11.  Every clearSimulation call releases, for each object it finds in  *)
(* the active object set (every object added since the last call), the     *)
(* object's geometry and then its material, or each element of its         *)
(* material array, and only then removes the object; objects without a     *)
(* geometry or a material have none released; the set is empty afterwards. *)
(***************************************************************************)
MaterialsOf(o) ==
    IF o.material = "none" THEN <<>>
    ELSE IF o.material = "array" THEN o.materials
    ELSE <<o.material>>

ResourcesOf(o) ==
    (IF o.geometry = "none" THEN <<>> ELSE <<o.geometry>>) \o MaterialsOf(o)

RECURSIVE ExpectedSteps(_)
ExpectedSteps(objs) ==
    IF objs = <<>> THEN <<>>
    ELSE LET o == Head(objs)
         IN [k \in 1..Len(ResourcesOf(o)) |-> <<"dispose", o.role, ResourcesOf(o)[k]>>]
            \o << <<"remove", o.role, "">> >>
            \o ExpectedSteps(Tail(objs))

C11_ClearReleasesEverything ==
    /\ \A i \in Calls(trace, "clearSimulation") :
          trace[i].steps = ExpectedSteps(trace[i].before)
    /\ (trace # <<>> /\ trace[Len(trace)].op = "clearSimulation")
          => sm.simulationObjects = <<>>

\* a call that found a topic's drawing followed by a caller's mesh with two
\* materials
C11_Witness ==
    \E i \in Calls(trace, "clearSimulation") :
       LET found == trace[i].before
       IN /\ Len(found) > 6
          /\ found[1].owner = "planes"
          /\ \E k \in 1..Len(found) : found[k].material = "array"
          /\ Len(trace[i].released) > 12

(***************************************************************************)
(* C12.  The front view of every true-space point a topic draws is the     *)
(* point with its depth z set to 0, and its top view is the point with its *)
(* height y set to 0, exactly: for the Point topic's point and for both    *)
(* end points of the Line topic's segment.  The Point topic's defaults     *)
(* (3,4,5) give (3,4,0) and (3,0,5).                                       *)
(***************************************************************************)
\* the object of the active object set with this role
Drawn(role) ==
    sm.simulationObjects[CHOOSE i \in 1..Len(sm.simulationObjects) :
                            sm.simulationObjects[i].role = role]

\* the active object set holds a drawing of topic t
Shows(t) == sm.simulationObjects # <<>> /\ sm.simulationObjects[1].owner = t

C12_ProjectionsAreExact ==
    /\ Shows("points") =>
          LET P == Drawn("mainPoint").position
          IN /\ P = <<Fix(topics.points.x), Fix(topics.points.y), Fix(topics.points.z)>>
             /\ Drawn("frontView").position = <<P[1], P[2], 0>>
             /\ Drawn("topView").position = <<P[1], 0, P[3]>>
             /\ topics.points = PointsParams =>
                   /\ Drawn("frontView").position = <<3000, 4000, 0>>
                   /\ Drawn("topView").position = <<3000, 0, 5000>>
    /\ Shows("lines") =>
          LET A == Drawn("main line").points[1]
              B == Drawn("main line").points[2]
          IN /\ Drawn("front view").points = << <<A[1], A[2], 0>>, <<B[1], B[2], 0>> >>
             /\ Drawn("top view").points = << <<A[1], 0, A[3]>>, <<B[1], 0, B[3]>> >>

\* a Line drawing whose end point has a depth of its own
C12_Witness ==
    /\ Shows("lines")
    /\ topics.lines.phi = 90
    /\ topics.lines.length = 10
    /\ Drawn("main line").points[2][3] > 5000
    /\ Drawn("front view").points[2][3] = 0

(***************************************************************************)
(* C13.  The quadrant the Point topic reports depends on the signs of y    *)
(* and z only, never on x: both positive '1st Quadrant'; y positive and z  *)
(* negative '2nd Quadrant'; both negative '3rd Quadrant'; y negative and z *)
(* positive '4th Quadrant'; y or z zero 'On a plane/axis'.  Every (y, z)   *)
(* gets exactly one of the five.                                           *)
(***************************************************************************)
Sign(v) == IF v > 0 THEN 1 ELSE IF v < 0 THEN -1 ELSE 0

QuadrantOfSigns ==
    [sy \in {-1, 0, 1}, sz \in {-1, 0, 1} |->
        CASE sy = 1 /\ sz = 1 -> "1st Quadrant"
          [] sy = 1 /\ sz = -1 -> "2nd Quadrant"
          [] sy = -1 /\ sz = -1 -> "3rd Quadrant"
          [] sy = -1 /\ sz = 1 -> "4th Quadrant"
          [] sy = 0 \/ sz = 0 -> "On a plane/axis"]

C13_QuadrantBySigns ==
    ui.infoOverlay.topic = "points" =>
        LET p == topics.points
        IN /\ ui.infoOverlay.quadrant = QuadrantOfSigns[Sign(p.y), Sign(p.z)]
           /\ \A x \in SliderMin.points.x..SliderMax.points.x :
                 getQuadrant([p EXCEPT !.x = x]) = ui.infoOverlay.quadrant

\* the point was moved onto the horizontal plane, off the vertical one
C13_Witness ==
    /\ ui.infoOverlay.topic = "points"
    /\ topics.points.y = 0
    /\ topics.points.z < 0
    /\ topics.points.x # 3
    /\ ui.infoOverlay.quadrant = "On a plane/axis"

(***************************************************************************)
(* C14.  The Line topic draws its segment from start = (x1, y1, z1) to     *)
(* end = start + length * (cos(theta)cos(phi), sin(theta),                 *)
(* cos(theta)sin(phi)), theta and phi taken in degrees and converted to    *)
(* radians; the length it reports is the distance between the drawn start  *)
(* and end, which is the input length up to rounding (here: 3 thousandths  *)
(* on a coordinate, one hundredth on the reported length).                 *)
(***************************************************************************)
Near(a, b, tolerance) == (a - b) \in (-tolerance)..tolerance

\* length * (a product of two of the cosines and sines of the table),
\* multiplied in the other order
Scaled(length, c1, c2) == (Fix(length) * ((c1 * c2) \div 10000)) \div 10000

C14_LineEndpoint ==
    Shows("lines") =>
        LET p == topics.lines
            A == Drawn("main line").points[1]
            B == Drawn("main line").points[2]
            ct == cosDegrees[p.theta]
            st == sinDegrees[p.theta]
            cp == cosDegrees[p.phi]
            sp == sinDegrees[p.phi]
        IN /\ A = <<Fix(p.x1), Fix(p.y1), Fix(p.z1)>>
           /\ Near(B[1] - A[1], Scaled(p.length, ct, cp), 3)
           /\ Near(B[2] - A[2], Scaled(p.length, st, 10000), 3)
           /\ Near(B[3] - A[3], Scaled(p.length, ct, sp), 3)
           /\ Drawn("startSphere").position = A
           /\ Drawn("endSphere").position = B
           /\ ui.infoOverlay.topic = "lines"
           /\ ui.infoOverlay.length = toFixed2(distanceTo(A, B))
           /\ Near(ui.infoOverlay.length, 100 * p.length, 1)

\* a segment of length 10 that rises at 30 degrees from a moved start point
C14_Witness ==
    /\ Shows("lines")
    /\ topics.lines.length = 10
    /\ topics.lines.theta = 30
    /\ topics.lines.phi = 45
    /\ topics.lines.x1 = -8
    /\ Drawn("main line").points[2][2] > Drawn("main line").points[1][2]

(***************************************************************************)
(* C15.  The Plane topic draws exactly four corner markers, at the corners *)
(* (+-size/2, +-size/2, 0) of the plane turned by the rotation that the    *)
(* plane mesh and its outline carry, which is (rotX, rotY, rotZ) in        *)
(* radians; size 5 without rotation puts them at (+-2.5, +-2.5, 0).        *)
(***************************************************************************)
Markers ==
    {i \in 1..Len(sm.simulationObjects) :
        /\ sm.simulationObjects[i].type = "Mesh"
        /\ sm.simulationObjects[i].geometry = "sphereGeometry"}

FlatCorners(size) ==
    {<<sx * (Fix(size) \div 2), sy * (Fix(size) \div 2), 0>> : sx \in {-1, 1}, sy \in {-1, 1}}

C15_CornerMarkers ==
    Shows("planes") =>
        LET p == topics.planes
            rotation == Drawn("plane").rotation
        IN /\ Cardinality(Markers) = 4
           /\ rotation = <<degToRad(p.rotX), degToRad(p.rotY), degToRad(p.rotZ)>>
           /\ Drawn("edgeLines").rotation = rotation
           /\ {sm.simulationObjects[i].position : i \in Markers}
                 = {applyEuler(c, rotation) : c \in FlatCorners(p.size)}
           /\ (p.size = 5 /\ p.rotX = 0 /\ p.rotY = 0 /\ p.rotZ = 0) =>
                 {sm.simulationObjects[i].position : i \in Markers}
                    = {<<2500, 2500, 0>>, <<-2500, 2500, 0>>,
                       <<2500, -2500, 0>>, <<-2500, -2500, 0>>}

\* a plane of size 10 turned a quarter about x: its markers stand upright
C15_Witness ==
    /\ Shows("planes")
    /\ topics.planes = [size |-> 10, rotX |-> 90, rotY |-> 0, rotZ |-> 0]
    /\ \E i \in Markers : sm.simulationObjects[i].position = <<5000, 0, 5000>>

(***************************************************************************)
(* C16.  A slider input on the active topic replaces the active object set *)
(* as a whole: the redraw removes every object the set held, the set then  *)
(* holds exactly the drawing built from the current parameters, and it has *)
(* as many objects as before the input.  Violated: after loadTopic with an *)
(* unregistered id (see C7) the set is empty while the active topic and    *)
(* its sliders are still those of before, and an input makes it 6 or 9.    *)
(***************************************************************************)
Removals(steps) == Len(SelectSeq(steps, LAMBDA step : step[1] = "remove"))

C16_InputReplacesSet ==
    [][(trace'[1].op = "input" /\ trace'[1].arg = tm.currentTopic)
         => LET t == trace'[1].arg
            IN /\ \E i \in Calls(trace', "clearSimulation") :
                     /\ trace'[i].before = sm.simulationObjects
                     /\ Removals(trace'[i].steps) = Len(sm.simulationObjects)
               /\ sm'.simulationObjects = Drawing(t, topics'[t])
               /\ Len(sm'.simulationObjects) = Len(sm.simulationObjects)]_vars

(***************************************************************************)
(* C17.  A slider input sets the one parameter bound to the slider to the  *)
(* slider's value and changes no other parameter of any topic; no other    *)
(* handler (loadTopic with its cleanup, clearSimulation, a frame, the font *)
(* load) changes a parameter; a topic that is loaded again draws from the  *)
(* parameter values it had when it was left.                               *)
(***************************************************************************)
C17_InputSetsOneParameter ==
    [][/\ trace'[1].op = "input"
          => LET e == trace'[1]
             IN /\ e.slider \in DOMAIN topics[e.arg]
                /\ topics' = [topics EXCEPT ![e.arg][e.slider] = e.value]
       /\ trace'[1].op # "input" => topics' = topics
       /\ \A id \in Stateful :
             (trace'[1].op = "loadTopic" /\ trace'[1].arg = id)
             => sm'.simulationObjects = Drawing(id, topics[id])]_vars

\* the Point topic, left with x moved to -8, is loaded again and draws there
C17_Witness ==
    /\ trace # <<>>
    /\ trace[1].op = "loadTopic"
    /\ trace[1].arg = "points"
    /\ topics.points.x = -8
    /\ \E i \in Calls(trace, "cleanup") : trace[i].arg # "points"
    /\ sm.simulationObjects # <<>>
    /\ sm.simulationObjects[1].position[1] = -8000

(***************************************************************************)
(* C18.  Once SceneManager.cleanup() has run no frame is rendered any      *)
(* more: the requested frame is cancelled, and a frame callback that ran   *)
(* all the same would return without rendering or requesting a frame.      *)
(***************************************************************************)
C18_NoFrameAfterTeardown ==
    sm.tornDown =>
        /\ Calls(trace, "render") = {}
        /\ sm.framePending = 0
        /\ LET w == animate(World, "frame")
           IN /\ Calls(w.trace, "render") = {}
              /\ w.sm.framePending = 0

\* the teardown cancelled a frame that was requested while a drawing was shown
C18_Witness ==
    /\ sm.tornDown
    /\ Calls(trace, "cancelAnimationFrame") # {}
    /\ sm.disposed.renderer = 1
    /\ sm.simulationObjects # <<>>

(***************************************************************************)
(* C19.  SceneManager.cleanup() is idempotent: in every state, before init *)
(* and after a failed init included, a second call throws nothing, leaves  *)
(* the manager as the first call left it, and the controls and the         *)
(* renderer are disposed and the canvas detached at most once in the run.  *)
(***************************************************************************)
C19_TeardownIsIdempotent ==
    LET w1 == sceneCleanup(World)
        w2 == sceneCleanup(w1)
    IN /\ Calls(w2.trace, "throw") = {}
       /\ State(w2) = State(w1)
       /\ \A what \in {"controls", "renderer", "canvas"} : w2.sm.disposed[what] <= 1
       /\ Calls(w2.trace, "SceneManager.cleanup") # {}
       /\ (sm.renderer /\ sm.controls) =>
             \A what \in {"controls", "renderer", "canvas"} : w1.sm.disposed[what] = 1

\* cleanup() was called on a manager already torn down after a good init
C19_Witness ==
    /\ sm.tornDown
    /\ trace # <<>>
    /\ trace[1].op = "SceneManager.cleanup"
    /\ \A what \in {"controls", "renderer", "canvas"} :
          sm.disposed[what] = 1 /\ Calls(trace, what) = {}

(***************************************************************************)
(* C20.  After a successful SceneManager.init(), in every state the        *)
(* operations lead to, teardown included, onWindowResize() completes       *)
(* without error and sets the camera's aspect ratio and the renderer's     *)
(* size from the container's dimensions.  Violated: after cleanup() the    *)
(* camera is null and the resize listener, still registered, throws.       *)
(***************************************************************************)
C20_ResizeAlwaysWorks ==
    [][trace'[1].op = "onWindowResize"
         => /\ Calls(trace', "throw") = {}
            /\ sm'.aspect = (sm'.container[1] * 10000) \div sm'.container[2]
            /\ sm'.size = sm'.container]_vars

(***************************************************************************)
(* C21.  When the WebGL check or SceneManager.init() fails, application    *)
(* start is aborted: no TopicManager, no topic buttons, no topic loaded,   *)
(* no resize or topicChanged listener, the loader never hidden and in the  *)
(* end showing the error with its Retry button; the error is caught inside *)
(* Application.init().                                                     *)
(***************************************************************************)
C21_FailedStartIsAborted ==
    app.state = "failed" =>
        /\ ~app.topicManager
        /\ ui.buttons = {}
        /\ ui.activeButtons = {}
        /\ tm.currentTopic = "null"
        /\ ~app.listeners
        /\ ui.loader = "error"
        /\ sm.simulationObjects = <<>>
        /\ (trace # <<>> /\ trace[1].op = "Application.init") =>
              /\ Calls(trace, "hideLoader") = {}
              /\ Calls(trace, "loadTopic") = {}
              /\ Calls(trace, "TopicManager.init") = {}
              /\ Calls(trace, "setupEventListeners") = {}
              /\ Calls(trace, "throw") # {}
              /\ trace[Len(trace)].op = "showError"

\* the start failed in SceneManager.init(), after the WebGL check passed
C21_Witness ==
    /\ app.state = "failed"
    /\ sm.constructed
    /\ trace # <<>>
    /\ trace[1].op = "Application.init"
    /\ Calls(trace, "SceneManager.init") # {}
    /\ trace[Len(trace)].op = "showError"

(***************************************************************************)
(* C22.  The font load completes at any time after the scene's init, in    *)
(* between frames, topic switches and slider inputs.  Its completion never *)
(* changes the active object set.  On success exactly six label objects    *)
(* are added to the permanent scene.  On failure nothing is added, one     *)
(* warning is logged, and the started application shows no error.          *)
(***************************************************************************)
C22_FontLoadLeavesDrawing ==
    [][/\ trace'[1].op = "fontLoaded"
          => /\ sm'.simulationObjects = sm.simulationObjects
             /\ Len(sm'.children) = Len(sm.children) + 6
             /\ SubSeq(sm'.children, 1, Len(sm.children)) = sm.children
             /\ \A i \in (Len(sm.children) + 1)..Len(sm'.children) :
                   /\ sm'.children[i].owner = "scene"
                   /\ sm'.children[i].material = "textMaterial"
             /\ <<tm', topics', ui', app'>> = <<tm, topics, ui, app>>
       /\ trace'[1].op = "console.warn"
          => /\ sm' = [sm EXCEPT !.fontRequest = "failed"]
             /\ Len(trace') = 1
             /\ <<tm', topics', ui', app'>> = <<tm, topics, ui, app>>
             /\ app'.state = "ready"
             /\ ui'.loader = "hidden"]_vars

\* the font arrived while a Point drawing with a moved x was shown
C22_Witness ==
    /\ trace # <<>>
    /\ trace[1].op = "fontLoaded"
    /\ Len(sm.simulationObjects) = 6
    /\ topics.points.x = -8
    /\ Len(sm.children) = Len(PermanentObjects) + 6

(***************************************************************************)
(* C23.  When the active topic has no cleanup function, loadTopic skips    *)
(* the cleanup without an error and goes on as usual: clearSimulation,     *)
(* then setActiveButton, then (for a registered id) the new topic becomes  *)
(* the active one, is loaded and announced.                                *)
(***************************************************************************)
C23_MissingCleanupIsSkipped ==
    [][\A id \in TopicIds :
          (/\ tm.currentTopic # "null"
           /\ ~hasCleanup(tm.currentTopic)
           /\ trace'[1].op = "loadTopic"
           /\ trace'[1].arg = id)
          => /\ Calls(trace', "cleanup") = {}
             /\ Len(Steps(trace')) >= 2
             /\ Steps(trace')[1] = <<"clearSimulation", "">>
             /\ Steps(trace')[2] = <<"setActiveButton", id>>
             /\ id \in Registered
                => /\ Steps(trace') = << <<"clearSimulation", "">>,
                                         <<"setActiveButton", id>>,
                                         <<"currentTopic", id>>,
                                         <<"load", id>>,
                                         <<"dispatchEvent", id>> >>
                   /\ Calls(trace', "throw") = {}
                   /\ tm'.currentTopic = id
                   /\ ui'.topicControls = id]_vars

\* a registered topic was loaded right after a topic value without cleanup
\* had been the active one
C23_Witness ==
    /\ trace # <<>>
    /\ trace[1].op = "loadTopic"
    /\ trace[1].arg = "lines"
    /\ Calls(trace, "cleanup") = {}
    /\ tm.currentTopic = "lines"
    /\ Calls(trace, "dispatchEvent") # {}

InitOrder ==
    <<"UIManager.init", "checkWebGLSupport", "SceneManager.init",
      "TopicManager.init", "setupEventListeners", "hideLoader", "loadTopic">>

\* the steps of init's try block a handler made, in the order it made them
InitSteps(tr) ==
    LET own == SelectSeq(tr, LAMBDA e : e.op \in Range(InitOrder)
                                        /\ e.by \in {"Application.init", "handler"})
    IN [i \in 1..Len(own) |-> own[i].op]

C25_InitOrder ==
    /\ [](/\ (trace # <<>> /\ trace[1].op = "Application.init")
             => /\ Len(InitSteps(trace)) <= Len(InitOrder)
                /\ InitSteps(trace) = SubSeq(InitOrder, 1, Len(InitSteps(trace)))
                /\ app.state = "ready"
                   => /\ InitSteps(trace) = InitOrder
                      /\ Requested(trace) = "welcome"
                      /\ \E r \in Calls(trace, "render") :
                            /\ trace[r].by = "init"
                            /\ \A i \in Calls(trace, "SceneManager.init") : i < r
                            /\ \A i \in Calls(trace, "TopicManager.init") : r < i
          /\ ui.loader = "hidden"
             => /\ sm.scene /\ sm.camera /\ sm.renderer /\ sm.controls
                /\ sm.children # <<>>
                /\ app.topicManager
                /\ ui.buttons = Registered)
    /\ [][(tm.currentTopic = "null" /\ tm'.currentTopic # "null")
             => /\ tm'.currentTopic = "welcome"
                /\ trace'[1].op = "Application.init"]_vars

\* the state a successful start ends in
C25_Witness ==
    /\ trace # <<>>
    /\ trace[1].op = "Application.init"
    /\ app.state = "ready"
    /\ ui.loader = "hidden"
    /\ tm.currentTopic = "welcome"
    /\ InitSteps(trace) = InitOrder

(***************************************************************************)
(* C26.  Between a successful SceneManager.init() and teardown the render  *)
(* loop neither stops nor multiplies: exactly one frame callback is        *)
(* pending in every such state; each frame first requests the next frame,  *)
(* then updates the camera controls, then renders; and a running loop      *)
(* stops only through teardown.                                            *)
(***************************************************************************)
C26_OneFramePending ==
    /\ []((sm.renderer /\ ~sm.tornDown) => sm.framePending = 1)
    /\ []((trace # <<>> /\ trace[1].by = "frame")
            => [i \in 1..Len(trace) |-> trace[i].op]
                  = <<"requestAnimationFrame", "controls.update", "render">>)
    /\ [][(sm.framePending > 0 /\ sm'.framePending = 0)
             => /\ trace'[1].op = "SceneManager.cleanup"
                /\ sm'.tornDown]_vars

\* a frame ran while a drawing was shown and left the next frame requested
C26_Witness ==
    /\ trace # <<>>
    /\ trace[1].by = "frame"
    /\ trace[1].op = "requestAnimationFrame"
    /\ sm.framePending = 1
    /\ sm.simulationObjects # <<>>
    /\ ~sm.tornDown

(***************************************************************************)
(* C27.  After setActiveButton(id) a topic button is marked active if and  *)
(* only if its id equals id: at most one button is active at any time, the *)
(* one of the last request when it has a button, and none after a request  *)
(* for an id that has no button.                                           *)
(***************************************************************************)
C27_OneActiveButton ==
    /\ [](/\ Cardinality(ui.activeButtons) <= 1
          /\ ui.activeButtons \subseteq ui.buttons)
    /\ [][\A id \in TopicIds :
             (\E i \in Calls(trace', "setActiveButton") : trace'[i].arg = id)
             => /\ \A b \in ui'.buttons : b \in ui'.activeButtons <=> b = id
                /\ id \notin ui'.buttons => ui'.activeButtons = {}]_vars

\* a request for an id without a button took the mark from the button that had it
C27_Witness ==
    /\ trace # <<>>
    /\ trace[1].op = "loadTopic"
    /\ trace[1].arg = "bogus"
    /\ Calls(trace, "setActiveButton") # {}
    /\ \E i \in Calls(trace, "cleanup") : trace[i].arg = "lines"
    /\ ui.activeButtons = {}
    /\ ui.buttons = Registered

(***************************************************************************)
(* C28.  The navigation drawer has two states, shown and hidden.  A click  *)
(* on the menu control flips the state, and the document's click listener  *)
(* does not undo the flip.  Below 768 pixels a click outside the drawer    *)
(* and the menu control hides a shown drawer, and a click on a topic       *)
(* button hides it.  From 768 pixels on, clicks outside and clicks on      *)
(* topic buttons leave the state as it is.  Clicks inside the drawer       *)
(* beside the buttons change nothing at any width.                         *)
(***************************************************************************)
C28_DrawerStates ==
    [][/\ trace'[1].op = "menuToggle.click"
          => ui'.sidebarHidden = ~ui.sidebarHidden
       /\ (trace'[1].op = "document.click" /\ trace'[1].arg = "outside")
          => ui'.sidebarHidden = IF ui.narrow THEN TRUE ELSE ui.sidebarHidden
       /\ (trace'[1].op = "document.click" /\ trace'[1].arg = "sidebar")
          => ui'.sidebarHidden = ui.sidebarHidden
       /\ (trace'[1].op = "loadTopic" /\ Calls(trace', "topicButtons.click") # {})
          => ui'.sidebarHidden = IF ui.narrow THEN TRUE ELSE ui.sidebarHidden
       /\ ui'.narrow = ui.narrow]_vars

\* below 768 pixels the menu control has just shown the drawer
C28_Witness ==
    /\ trace # <<>>
    /\ trace[1].op = "menuToggle.click"
    /\ Calls(trace, "document.click") # {}
    /\ ui.narrow
    /\ ~ui.sidebarHidden
    /\ app.state = "ready"

(***************************************************************************)
(* C29.  Every geometry and every material a topic's updateVisualization   *)
(* creates is released exactly once by the clearSimulation call that       *)
(* clears the drawing: none twice, none never.  Violated: the dashed lines *)
(* of the Point and Line topics share one material and the markers of the  *)
(* Line and Plane topics share one geometry, which are released once per   *)
(* object, and the Plane topic's marker material template is never         *)
(* attached to an object and so never released.                            *)
(***************************************************************************)
\* how often a resource is among those a call released
TimesReleased(released, resource) ==
    Cardinality({k \in 1..Len(released) : released[k] = resource})

C29_EachResourceReleasedOnce ==
    \A i \in Calls(trace, "clearSimulation") :
        LET found == trace[i].before
        IN (found # <<>> /\ found[1].owner \in Stateful)
           => \A resource \in CreatedResources(found[1].owner, found[1].params) :
                 TimesReleased(trace[i].released, resource) = 1

(***************************************************************************)
(* C30.  clearSimulation terminates whatever the active object set holds:  *)
(* each pass of its loop removes exactly the first object of the set, so   *)
(* the loop makes as many passes as the set had objects, and the objects   *)
(* are released and removed in the order in which they were added.         *)
(***************************************************************************)
\* the passes of the loop that were complete before step j
PassesBefore(steps, j) ==
    Cardinality({k \in 1..(j - 1) : steps[k][1] = "remove"})

C30_ClearLoopTerminates ==
    /\ Len(sm.simulationObjects) > 0
       => /\ remove(sm.simulationObjects, sm.simulationObjects[1])
               = Tail(sm.simulationObjects)
          /\ clearLoop(sm.simulationObjects, <<>>)
               = clearLoop(Tail(sm.simulationObjects),
                           disposeObject(sm.simulationObjects[1])
                              \o << <<"remove", sm.simulationObjects[1].role, "">> >>)
    /\ clearLoop(sm.simulationObjects, <<>>).children = <<>>
    /\ \A i \in Calls(trace, "clearSimulation") :
          LET found == trace[i].before
              steps == trace[i].steps
          IN /\ Removals(steps) = Len(found)
             /\ \A j \in 1..Len(steps) :
                   /\ PassesBefore(steps, j) < Len(found)
                   /\ steps[j][2] = found[PassesBefore(steps, j) + 1].role
             /\ steps # <<>> => steps[Len(steps)][1] = "remove"

\* a call that found two objects of a caller behind a Line drawing
C30_Witness ==
    \E i \in Calls(trace, "clearSimulation") :
       LET found == trace[i].before
       IN /\ Len(found) = 11
          /\ found[1].owner = "lines"
          /\ found[10].owner = "caller"
          /\ found[11].owner = "caller"
          /\ found[10].role # found[11].role
          /\ Removals(trace[i].steps) = 11

====
